---- MODULE Spec2Model ----
(***************************************************************************)
(* A model of three pieces of azure-cli:                                   *)
(*   - the generated command `network vnet check-ip-address`               *)
(*     (CheckIpAddress in _check_ip_address.py): its handler sequence, its *)
(*     HTTP operation and its two class-level schema caches;               *)
(*   - the same two cache builders stepped statement by statement by two   *)
(*     threads (SpecConcurrent);                                           *)
(*   - `login` and `set_active_subscription` of the profile command        *)
(*     module (custom.py) (SpecProfile).                                   *)
(* Python objects live in `heap`; a reference is the object's id, and 0 is *)
(* the reference None.  An unset string argument is the string "None".     *)
(***************************************************************************)
EXTENDS Integers, Sequences, FiniteSets, TLC

\* ---------------------------------------------------------------- bounds
MaxInvocations == 2
MaxExtraCalls == 2
MaxThreadCalls == 2
MaxProfileCalls == 2

\* ------------------------------------------------------------- variables
VARIABLES
    \* class-level state of CheckIpAddress (shared by all invocations)
    args_schema,        \* CheckIpAddress._args_schema: a reference
    schema_on_200,      \* VirtualNetworksCheckIPAddressAvailability._schema_on_200
    heap,               \* object id -> the object's attributes
    nextObj,            \* the id the next constructed object gets
    \* one invocation of CheckIpAddress._handler
    pc,                 \* "idle" | "running" | "completed" | "failed"
    ip,                 \* index into HandlerSteps of the next statement
    opc,                \* position inside the operation's __call__
    command_args,       \* the raw arguments of the invocation
    subscription_id,    \* ctx.subscription_id (ambient)
    ctx_args,           \* ctx.args
    ctx_vars,           \* ctx.vars.instance
    request,            \* the request make_request built
    response,           \* the session send_request returned
    sendCount,          \* calls of client.send_request in this invocation
    result,             \* what _handler returned
    error,              \* the exception that ended the invocation
    trace,              \* the steps of this invocation, in the order they ran
    invocations,        \* invocations started so far
    \* the history of the schema builders' calls
    argsRets,           \* what each _build_arguments_schema call returned
    argsAssigns,        \* how many calls assigned the declared arguments
    on200Rets,          \* what each _build_schema_on_200 call returned
    on200Assigns,       \* how many calls assigned the declared fields
    extraCalls,         \* direct calls of the builders so far
    \* two threads inside the builders (SpecConcurrent)
    tpc,                \* thread -> the statement it is at
    tfn,                \* thread -> the builder it is calling
    tlocal,             \* thread -> its locals: the schema and the list type
    tret,               \* thread -> what each of its calls returned
    tcalls,             \* thread -> calls it has started
    \* the profile commands (SpecProfile)
    lpc,                \* position inside login / set_active_subscription
    largs,              \* the arguments of the call
    lenv,               \* the environment: ttys, config, cloud console
    lpassword,          \* login's local `password`
    linteractive,       \* login's local `interactive`
    lsubs,              \* what profile.login returned
    lret,               \* what the call returned
    lerr,               \* the exception the call raised
    lcalls,             \* the collaborators' methods called, in order
    active,             \* the profile's active subscription
    activeAtCall,       \* the active subscription when the call began
    lcount              \* calls of the profile commands so far

classVars == <<args_schema, schema_on_200, heap, nextObj>>
histVars == <<argsRets, argsAssigns, on200Rets, on200Assigns>>
invVars == <<pc, ip, opc, command_args, subscription_id, ctx_args, ctx_vars,
             request, response, sendCount, result, error, trace, invocations>>
cmdVars == <<invVars, extraCalls>>
thrVars == <<tpc, tfn, tlocal, tret, tcalls>>
profVars == <<lpc, largs, lenv, lpassword, linteractive, lsubs, lret, lerr,
              lcalls, active, activeAtCall, lcount>>
vars == <<classVars, histVars, cmdVars, thrVars, profVars>>

None == "None"
NoRef == 0

\* ------------------------------------------------------ values and inputs
EmptyDict == [k \in {} |-> None]

\* Python's {**a, **b}: the later dict wins on a shared key.
Merge(a, b) == b @@ a

RGs == {None, "rg1"}
Names == {None, "vnet1", "my vnet"}
Ips == {None, "10.0.0.4"}
Subs == {None, "sub1"}

Statuses == {200, 201, 404, 500}

\* Response bodies on the wire: the two declared fields, one the schema does
\* not declare, or an error document.
Bodies ==
    { ("available" :> TRUE) @@ ("availableIPAddresses" :> <<>>) @@ ("etag" :> "W1"),
      ("available" :> FALSE) @@ ("availableIPAddresses" :> <<"10.0.0.5", "10.0.0.6">>),
      ("error" :> [code |-> "NotFound", message |-> "x"]) }

NoArgs == [resource_group |-> None, name |-> None, ip_address |-> None]
NoRequest == [method |-> None, url |-> <<>>, query |-> EmptyDict, headers |-> EmptyDict]
NoResponse == [status |-> 0, body |-> EmptyDict]
NoInstance == [set |-> FALSE, data |-> EmptyDict, schema |-> NoRef]
NoResult == [set |-> FALSE, value |-> EmptyDict]

\* An attribute of a schema object: an argument or a field type.
Field(type, required, options, id_part, serialized_name, ref) ==
    [type |-> type, required |-> required, options |-> options,
     id_part |-> id_part, serialized_name |-> serialized_name, ref |-> ref]

\* ------------------------------------------- CheckIpAddress: the schemas
\* The declared arguments, lines 47-59.
ArgResourceGroup == Field("AAZResourceGroupNameArg", TRUE, {}, None, None, NoRef)
\* --name declared without required=True.
ArgName_Optional == Field("AAZStrArg", FALSE, {"-n", "--name"}, "name", None, NoRef)

ArgName == Field("AAZStrArg", TRUE, {"-n", "--name"}, "name", None, NoRef)
ArgIpAddress == Field("AAZStrArg", FALSE, {"--ip-address"}, None, None, NoRef)

ArgsSchemaAttrs ==
    ("resource_group" :> ArgResourceGroup) @@ ("name" :> ArgName)
        @@ ("ip_address" :> ArgIpAddress)

\* The declared fields of the 200 response, lines 163-169.
On200Attrs(listRef) ==
    ("available" :> Field("AAZBoolType", FALSE, {}, None, None, NoRef))
        @@ ("available_ip_addresses" :>
                Field("AAZListType", FALSE, {}, None, "availableIPAddresses", listRef))

ListAttrs == ("Element" :> Field("AAZStrType", FALSE, {}, None, None, NoRef))

Obj(type, attrs) == [type |-> type, attrs |-> attrs]

\* A builder that forgets its cache: it builds on every call.
BuildArgumentsSchema_NoCache(cache, h, nid) ==
    [ret |-> nid, cache |-> nid,
     heap |-> h @@ (nid :> Obj("AAZArgumentsSchema", ArgsSchemaAttrs)),
     nid |-> nid + 1, assigned |-> TRUE]

\* CheckIpAddress._build_arguments_schema run without interruption: the cached
\* reference when there is one; otherwise a new schema object, cached, with the
\* three arguments assigned.
BuildArgumentsSchema(cache, h, nid) ==
    IF cache # NoRef
    THEN [ret |-> cache, cache |-> cache, heap |-> h, nid |-> nid, assigned |-> FALSE]
    ELSE [ret |-> nid, cache |-> nid,
          heap |-> h @@ (nid :> Obj("AAZArgumentsSchema", ArgsSchemaAttrs)),
          nid |-> nid + 1, assigned |-> TRUE]

\* _build_schema_on_200 run without interruption: the object type, then the
\* list type it holds, whose Element is assigned last.
BuildSchemaOn200(cache, h, nid) ==
    IF cache # NoRef
    THEN [ret |-> cache, cache |-> cache, heap |-> h, nid |-> nid, assigned |-> FALSE]
    ELSE [ret |-> nid, cache |-> nid,
          heap |-> h @@ (nid :> Obj("AAZObjectType", On200Attrs(nid + 1)))
                     @@ ((nid + 1) :> Obj("AAZListType", ListAttrs)),
          nid |-> nid + 2, assigned |-> TRUE]

\* ------------------------------------ CheckIpAddress: request construction
\* urllib's quote(str(value), safe='') on the values of the model.
Quote(s) ==
    CASE s = "my vnet" -> "my%20vnet"
      [] OTHER -> s

\* serialize_url_param / serialize_query_param / serialize_header_param: an unset
\* value gives no parameter, an error if the parameter is required.
SerializeParam(name, value, required) ==
    IF value = None
    THEN [ok |-> ~required, params |-> EmptyDict]
    ELSE [ok |-> TRUE, params |-> (name :> Quote(value))]

SerializeHeaderParam(name, value) ==
    IF value = None
    THEN [ok |-> TRUE, params |-> EmptyDict]
    ELSE [ok |-> TRUE, params |-> (name :> value)]

UrlParameters(args, sub) ==
    LET p1 == SerializeParam("resourceGroupName", args.resource_group, TRUE)
        p2 == SerializeParam("subscriptionId", sub, TRUE)
        p3 == SerializeParam("virtualNetworkName", args.name, TRUE)
    IN  [ok |-> p1.ok /\ p2.ok /\ p3.ok,
         params |-> Merge(Merge(p1.params, p2.params), p3.params)]

\* query_parameters with the optional ipAddress left out altogether.
QueryParameters_NoIp(args) ==
    SerializeParam("api-version", "2017-10-01", TRUE)

QueryParameters(args) ==
    LET p1 == SerializeParam("ipAddress", args.ip_address, FALSE)
        p2 == SerializeParam("api-version", "2017-10-01", TRUE)
    IN  [ok |-> p1.ok /\ p2.ok, params |-> Merge(p1.params, p2.params)]

HeaderParameters ==
    SerializeHeaderParam("Accept", "application/json")

Method == "GET"

ErrorFormat == "MgmtErrorFormat"

UrlTemplate ==
    <<"subscriptions", "{subscriptionId}", "resourceGroups", "{resourceGroupName}",
      "providers", "Microsoft.Network", "virtualNetworks", "{virtualNetworkName}",
      "CheckIPAddressAvailability">>

Placeholders ==
    ("{subscriptionId}" :> "subscriptionId")
        @@ ("{resourceGroupName}" :> "resourceGroupName")
        @@ ("{virtualNetworkName}" :> "virtualNetworkName")

\* client.format_url: every placeholder of the template replaced by its
\* parameter; a placeholder with no parameter is an error.
FormatUrl(template, params) ==
    LET holes == {i \in DOMAIN template : template[i] \in DOMAIN Placeholders}
    IN  [ok |-> \A i \in holes : Placeholders[template[i]] \in DOMAIN params,
         url |-> [i \in DOMAIN template |->
                    IF i \in holes /\ Placeholders[template[i]] \in DOMAIN params
                    THEN params[Placeholders[template[i]]]
                    ELSE template[i]]]

Url(args, sub) ==
    LET up == UrlParameters(args, sub)
        fu == FormatUrl(UrlTemplate, up.params)
    IN  [ok |-> up.ok /\ fu.ok, url |-> fu.url]

\* AAZHttpOperation.make_request: the request of the operation's properties.
MakeRequest(args, sub) ==
    LET u == Url(args, sub)
        q == QueryParameters(args)
        hd == HeaderParameters
    IN  IF u.ok /\ q.ok /\ hd.ok
        THEN [ok |-> TRUE,
              request |-> [method |-> Method, url |-> u.url,
                           query |-> q.params, headers |-> hd.params]]
        ELSE [ok |-> FALSE, request |-> NoRequest]

\* --------------------------------------- CheckIpAddress: the response
\* A success test that takes every 2xx status.
StatusIsSuccess_Any2xx(status) == status \in {200, 201}

\* __call__, line 85: `status_code in [200]`.
StatusIsSuccess(status) == status \in {200}

\* AAZHttpOperation.on_error: decodes the error body and raises.
OnError(http_response) == "RemoteApiError"

\* client.send_request when no response is obtained.
TransportFailure == "TransportError"

\* on_200: the deserialized body stored as ctx var "instance", typed by the
\* schema _build_schema_on_200 returns.
On200(body, schemaRef) == [set |-> TRUE, data |-> body, schema |-> schemaRef]

\* The wire name of a field: its serialized_name, else its own name.
WireName(n, f) == IF f.serialized_name = None THEN n ELSE f.serialized_name

\* deserialize_output: the declared fields under their logical names; wire
\* fields the schema does not declare are dropped.
DeserializeOutput(instance, h) ==
    LET attrs == h[instance.schema].attrs
    IN  [set |-> TRUE,
         value |-> [n \in {m \in DOMAIN attrs :
                              WireName(m, attrs[m]) \in DOMAIN instance.data} |->
                       instance.data[WireName(n, attrs[n])]]]

\* super()._handler's argument validation: every required argument of the
\* schema that has no value.
MissingRequired(schemaRef, h, raw) ==
    {n \in DOMAIN h[schemaRef].attrs : h[schemaRef].attrs[n].required /\ raw[n] = None}

\* ------------------------------------------- CheckIpAddress: the handler
\* _execute_operations with the two hooks run first and the operation last.
ExecuteOperationsSteps_HooksFirst == <<"pre_operations", "post_operations", "operation">>

\* _execute_operations, lines 62-65: its three statements in order.
ExecuteOperationsSteps == <<"pre_operations", "operation", "post_operations">>

\* _handler returning the output before the operations have run.
HandlerSteps_OutputFirst == <<"super_handler", "output">> \o ExecuteOperationsSteps

\* _handler, lines 31-34: super()._handler, _execute_operations, _output.
HandlerSteps == <<"super_handler">> \o ExecuteOperationsSteps \o <<"output">>

AtStep(name) == pc = "running" /\ ip \in DOMAIN HandlerSteps /\ HandlerSteps[ip] = name

\* An exception leaves _handler: nothing after the raising statement runs.
Raise(kind) ==
    /\ pc' = "failed"
    /\ error' = kind

\* A new invocation: a fresh command object and context.
Invoke ==
    /\ pc \in {"idle", "completed", "failed"}
    /\ invocations < MaxInvocations
    /\ \E rg \in RGs, n \in Names, a \in Ips, sub \in Subs :
          /\ command_args' = [resource_group |-> rg, name |-> n, ip_address |-> a]
          /\ subscription_id' = sub
    /\ pc' = "running"
    /\ ip' = 1
    /\ opc' = "make_request"
    /\ ctx_args' = NoArgs
    /\ ctx_vars' = NoInstance
    /\ request' = NoRequest
    /\ response' = NoResponse
    /\ sendCount' = 0
    /\ result' = NoResult
    /\ error' = None
    /\ trace' = <<>>
    /\ invocations' = invocations + 1
    /\ UNCHANGED <<classVars, histVars, extraCalls, thrVars, profVars>>

\* super()._handler(command_args): the argument schema is built (or taken from
\* the cache) and the arguments are validated against it.
SuperHandler ==
    /\ AtStep("super_handler")
    /\ LET b == BuildArgumentsSchema(args_schema, heap, nextObj)
           missing == MissingRequired(b.ret, b.heap, command_args)
       IN  /\ args_schema' = b.cache
           /\ heap' = b.heap
           /\ nextObj' = b.nid
           /\ argsRets' = Append(argsRets, b.ret)
           /\ argsAssigns' = argsAssigns + (IF b.assigned THEN 1 ELSE 0)
           /\ trace' = Append(trace, "super_handler")
           /\ IF missing # {}
              THEN /\ Raise("MissingRequiredArgument")
                   /\ UNCHANGED <<ip, ctx_args>>
              ELSE /\ ctx_args' = command_args
                   /\ ip' = ip + 1
                   /\ UNCHANGED <<pc, error>>
    /\ UNCHANGED <<schema_on_200, on200Rets, on200Assigns, opc, command_args,
                   subscription_id, ctx_vars, request, response, sendCount, result,
                   invocations, extraCalls, thrVars, profVars>>

\* pre_operations: an empty callback.
PreOperations ==
    /\ AtStep("pre_operations")
    /\ trace' = Append(trace, "pre_operations")
    /\ ip' = ip + 1
    /\ UNCHANGED <<classVars, histVars, pc, opc, command_args, subscription_id,
                   ctx_args, ctx_vars, request, response, sendCount, result, error,
                   invocations, extraCalls, thrVars, profVars>>

\* __call__, line 83: request = self.make_request().
OpMakeRequest ==
    /\ AtStep("operation")
    /\ opc = "make_request"
    /\ trace' = Append(trace, "operation")
    /\ LET r == MakeRequest(ctx_args, subscription_id)
       IN  IF r.ok
           THEN /\ request' = r.request
                /\ opc' = "send_request"
                /\ UNCHANGED <<pc, error>>
           ELSE /\ Raise("ParameterMissing")
                /\ UNCHANGED <<request, opc>>
    /\ UNCHANGED <<classVars, histVars, ip, command_args, subscription_id, ctx_args,
                   ctx_vars, response, sendCount, result, invocations, extraCalls,
                   thrVars, profVars>>

\* __call__, line 84: the injected client sends the request; it returns a
\* session or raises a transport error.
OpSendRequest ==
    /\ AtStep("operation")
    /\ opc = "send_request"
    /\ sendCount' = sendCount + 1
    /\ \/ /\ \E st \in Statuses, b \in Bodies : response' = [status |-> st, body |-> b]
          /\ opc' = "classify"
          /\ UNCHANGED <<pc, error>>
       \/ /\ Raise(TransportFailure)
          /\ UNCHANGED <<response, opc>>
    /\ UNCHANGED <<classVars, histVars, ip, command_args, subscription_id, ctx_args,
                   ctx_vars, request, result, trace, invocations, extraCalls,
                   thrVars, profVars>>

\* __call__, lines 85-88: on_200 for a success status, on_error (which raises)
\* for every other status.
OpClassify ==
    /\ AtStep("operation")
    /\ opc = "classify"
    /\ IF StatusIsSuccess(response.status)
       THEN LET b == BuildSchemaOn200(schema_on_200, heap, nextObj)
            IN  /\ schema_on_200' = b.cache
                /\ heap' = b.heap
                /\ nextObj' = b.nid
                /\ on200Rets' = Append(on200Rets, b.ret)
                /\ on200Assigns' = on200Assigns + (IF b.assigned THEN 1 ELSE 0)
                /\ ctx_vars' = On200(response.body, b.ret)
                /\ opc' = "done"
                /\ ip' = ip + 1
                /\ trace' = Append(trace, "operation_done")
                /\ UNCHANGED <<pc, error>>
       ELSE /\ Raise(OnError(response))
            /\ UNCHANGED <<schema_on_200, heap, nextObj, on200Rets, on200Assigns,
                           ctx_vars, opc, ip, trace>>
    /\ UNCHANGED <<args_schema, argsRets, argsAssigns, command_args, subscription_id,
                   ctx_args, request, response, sendCount, result, invocations,
                   extraCalls, thrVars, profVars>>

\* post_operations: an empty callback.
PostOperations ==
    /\ AtStep("post_operations")
    /\ trace' = Append(trace, "post_operations")
    /\ ip' = ip + 1
    /\ UNCHANGED <<classVars, histVars, pc, opc, command_args, subscription_id,
                   ctx_args, ctx_vars, request, response, sendCount, result, error,
                   invocations, extraCalls, thrVars, profVars>>

\* _output, lines 75-77: reads ctx.vars.instance; reading a variable no
\* operation has set raises.
Output ==
    /\ AtStep("output")
    /\ trace' = Append(trace, "output")
    /\ IF ctx_vars.set
       THEN /\ result' = DeserializeOutput(ctx_vars, heap)
            /\ pc' = "completed"
            /\ UNCHANGED error
       ELSE /\ Raise("UndefinedVariable")
            /\ UNCHANGED result
    /\ UNCHANGED <<classVars, histVars, ip, opc, command_args, subscription_id,
                   ctx_args, ctx_vars, request, response, sendCount, invocations,
                   extraCalls, thrVars, profVars>>

\* A direct call of the class method _build_arguments_schema, between the
\* steps of an invocation.
CallBuildArgumentsSchema ==
    /\ extraCalls < MaxExtraCalls
    /\ extraCalls' = extraCalls + 1
    /\ LET b == BuildArgumentsSchema(args_schema, heap, nextObj)
       IN  /\ args_schema' = b.cache
           /\ heap' = b.heap
           /\ nextObj' = b.nid
           /\ argsRets' = Append(argsRets, b.ret)
           /\ argsAssigns' = argsAssigns + (IF b.assigned THEN 1 ELSE 0)
    /\ UNCHANGED <<schema_on_200, on200Rets, on200Assigns, invVars, thrVars, profVars>>

\* A direct call of the class method _build_schema_on_200.
CallBuildSchemaOn200 ==
    /\ extraCalls < MaxExtraCalls
    /\ extraCalls' = extraCalls + 1
    /\ LET b == BuildSchemaOn200(schema_on_200, heap, nextObj)
       IN  /\ schema_on_200' = b.cache
           /\ heap' = b.heap
           /\ nextObj' = b.nid
           /\ on200Rets' = Append(on200Rets, b.ret)
           /\ on200Assigns' = on200Assigns + (IF b.assigned THEN 1 ELSE 0)
    /\ UNCHANGED <<args_schema, argsRets, argsAssigns, invVars, thrVars, profVars>>

\* ------------------------------------------------------------ the start
Threads == {1, 2}

NoLoginArgs ==
    [fn |-> None, username |-> None, password |-> None, service_principal |-> FALSE,
     tenant |-> None, identity |-> FALSE, use_device_code |-> FALSE,
     use_cert_sn_issuer |-> FALSE, client_assertion |-> None,
     subscription |-> None]

NoEnv == [stdin_tty |-> FALSE, stdout_tty |-> FALSE, login_experience_v2 |-> TRUE,
          cloud_console |-> FALSE]

Init ==
    /\ args_schema = NoRef
    /\ schema_on_200 = NoRef
    /\ heap = EmptyDict
    /\ nextObj = 1
    /\ pc = "idle"
    /\ ip = 1
    /\ opc = "make_request"
    /\ command_args = NoArgs
    /\ subscription_id = None
    /\ ctx_args = NoArgs
    /\ ctx_vars = NoInstance
    /\ request = NoRequest
    /\ response = NoResponse
    /\ sendCount = 0
    /\ result = NoResult
    /\ error = None
    /\ trace = <<>>
    /\ invocations = 0
    /\ argsRets = <<>>
    /\ argsAssigns = 0
    /\ on200Rets = <<>>
    /\ on200Assigns = 0
    /\ extraCalls = 0
    /\ tpc = [t \in Threads |-> "idle"]
    /\ tfn = [t \in Threads |-> None]
    /\ tlocal = [t \in Threads |-> [s |-> NoRef, l |-> NoRef]]
    /\ tret = [t \in Threads |-> <<>>]
    /\ tcalls = [t \in Threads |-> 0]
    /\ lpc = "idle"
    /\ largs = NoLoginArgs
    /\ lenv = NoEnv
    /\ lpassword = None
    /\ linteractive = FALSE
    /\ lsubs = <<>>
    /\ lret = [kind |-> "none", value |-> <<>>]
    /\ lerr = None
    /\ lcalls = <<>>
    /\ active = None
    /\ activeAtCall = None
    /\ lcount = 0

\* Invocations of `network vnet check-ip-address`, one after another.
Next ==
    \/ Invoke
    \/ SuperHandler
    \/ PreOperations
    \/ OpMakeRequest
    \/ OpSendRequest
    \/ OpClassify
    \/ PostOperations
    \/ Output
    \/ CallBuildArgumentsSchema
    \/ CallBuildSchemaOn200

Spec == Init /\ [][Next]_vars

\* =================================================== claims under Spec
IsPrefix(s, t) == Len(s) <= Len(t) /\ \A i \in 1..Len(s) : s[i] = t[i]

Ran(step) == \E i \in 1..Len(trace) : trace[i] = step

CanonicalTrace ==
    <<"super_handler", "pre_operations", "operation", "operation_done",
      "post_operations", "output">>

\* C1: in every invocation of _handler the steps run in one fixed order -
\* argument handling, pre_operations, the operation to its end (ctx var
\* "instance" stored), post_operations, _output - and _output runs only with
\* "instance" already stored.
C1_HandlerOrder ==
    /\ IsPrefix(trace, CanonicalTrace)
    /\ Ran("operation_done") => ctx_vars.set
    /\ Ran("output") => /\ ctx_vars.set
                        /\ Ran("operation_done")
                        /\ error # "UndefinedVariable"

C1_Witness == pc = "completed" /\ trace = CanonicalTrace /\ result.set

\* C2: a response with status 200 has its body stored as ctx var "instance"
\* under the on-200 schema; a response with any other status takes the error
\* path, a remote API error is raised and "instance" is never written.
C2_StatusClassification ==
    response # NoResponse =>
        IF response.status = 200
        THEN \/ pc = "running" /\ opc = "classify" /\ ~ctx_vars.set
             \/ /\ ctx_vars = [set |-> TRUE, data |-> response.body,
                               schema |-> schema_on_200]
                /\ schema_on_200 # NoRef
                /\ DOMAIN heap[schema_on_200].attrs = {"available", "available_ip_addresses"}
                /\ error # "RemoteApiError"
        ELSE /\ ~ctx_vars.set
             /\ \/ pc = "running" /\ opc = "classify"
                \/ pc = "failed" /\ error = "RemoteApiError"

C2_Witness ==
    /\ response # NoResponse /\ response.status = 200
    /\ ctx_vars.set /\ ctx_vars.data = response.body
    /\ "etag" \in DOMAIN response.body

\* C3: when the operation raises (a remote API error on a status other than
\* 200, or a transport error) the invocation fails at once: post_operations
\* and _output do not run, nothing is returned, and the request is sent once.
C3_FailFast ==
    /\ sendCount <= 1
    /\ (\/ error \in {"RemoteApiError", "TransportError"}
        \/ (response # NoResponse /\ response.status # 200)) =>
          /\ ~Ran("post_operations")
          /\ ~Ran("output")
          /\ ~result.set
          /\ sendCount = 1
          /\ pc \in {"running", "failed"}
          /\ pc = "running" => opc = "classify"
    /\ error \in {"RemoteApiError", "TransportError"} => pc = "failed"

C3_Witness ==
    /\ pc = "failed" /\ error = "TransportError"
    /\ Ran("pre_operations") /\ sendCount = 1

\* C4: when argument validation fails (a required resource_group or name has
\* no value) the invocation fails and none of the operation sequence runs: no
\* pre_operations, no request built or sent, no ctx var written.
C4_ValidationFailure ==
    /\ error = "MissingRequiredArgument" =>
          /\ pc = "failed"
          /\ trace = <<"super_handler">>
          /\ request = NoRequest
          /\ sendCount = 0
          /\ ~ctx_vars.set
          /\ ~result.set
    /\ (/\ pc # "idle"
        /\ Ran("super_handler")
        /\ (command_args.resource_group = None \/ command_args.name = None)) =>
          /\ pc = "failed"
          /\ error = "MissingRequiredArgument"

C4_Witness ==
    /\ pc = "failed" /\ error = "MissingRequiredArgument"
    /\ command_args.name = None /\ command_args.resource_group # None

AllSame(rets) == \A i, j \in 1..Len(rets) : rets[i] = rets[j]

C5_State ==
    /\ AllSame(argsRets)
    /\ argsAssigns <= 1
    /\ Len(argsRets) > 0 =>
          /\ argsAssigns = 1
          /\ args_schema = argsRets[1]
          /\ DOMAIN heap[args_schema].attrs = {"resource_group", "name", "ip_address"}
    /\ AllSame(on200Rets)
    /\ on200Assigns <= 1
    /\ Len(on200Rets) > 0 =>
          /\ on200Assigns = 1
          /\ schema_on_200 = on200Rets[1]

C5_Step ==
    /\ args_schema # NoRef =>
          /\ args_schema' = args_schema
          /\ heap'[args_schema] = heap[args_schema]
          /\ argsAssigns' = argsAssigns
    /\ schema_on_200 # NoRef =>
          /\ schema_on_200' = schema_on_200
          /\ heap'[schema_on_200] = heap[schema_on_200]
          /\ on200Assigns' = on200Assigns

\* C5: over any sequence of calls made one after another,
\* _build_arguments_schema returns the same object on every call, the three
\* arguments are assigned in the first call only, _build_schema_on_200 returns
\* the same object on every call, and a cached schema is never replaced.
C5_BuildOnce == [](C5_State) /\ [][C5_Step]_vars

C5_Witness ==
    /\ Len(argsRets) >= 3
    /\ Len(on200Rets) >= 2
    /\ invocations = 2

\* C7: the request of a validated argument set always carries
\* api-version=2017-10-01; it carries ipAddress exactly when ip_address is set
\* (never an empty value in its place); and a URL is produced only when
\* resourceGroupName, subscriptionId and virtualNetworkName all have a value -
\* otherwise building the request fails and nothing is sent.
C7_RequestConstruction ==
    /\ request # NoRequest =>
          /\ "api-version" \in DOMAIN request.query
          /\ request.query["api-version"] = "2017-10-01"
          /\ DOMAIN request.query \subseteq {"api-version", "ipAddress"}
          /\ ("ipAddress" \in DOMAIN request.query) <=> (ctx_args.ip_address # None)
          /\ "ipAddress" \in DOMAIN request.query =>
                request.query["ipAddress"] = Quote(ctx_args.ip_address)
          /\ ctx_args.resource_group # None
          /\ subscription_id # None
          /\ ctx_args.name # None
          /\ request.url[2] = Quote(subscription_id)
          /\ request.url[4] = Quote(ctx_args.resource_group)
          /\ request.url[8] = Quote(ctx_args.name)
    /\ (/\ Ran("operation")
        /\ (\/ ctx_args.resource_group = None
            \/ subscription_id = None
            \/ ctx_args.name = None)) =>
          /\ pc = "failed"
          /\ error = "ParameterMissing"
          /\ request = NoRequest
          /\ sendCount = 0

C7_Witness ==
    /\ request # NoRequest
    /\ ctx_args.ip_address = None
    /\ DOMAIN request.query = {"api-version"}
    /\ request.url[8] = "my%20vnet"
    /\ sendCount = 1

\* ===================================== the builders, statement by statement
\* Two threads call the two class methods at the same time.  Nothing in either
\* method takes a lock, so a thread may be switched out between any two
\* statements; each action below is one statement.
Builders == {"_build_arguments_schema", "_build_schema_on_200"}

Cache(fn) == IF fn = "_build_arguments_schema" THEN args_schema ELSE schema_on_200

DeclaredAttrs(fn) ==
    IF fn = "_build_arguments_schema"
    THEN {"resource_group", "name", "ip_address"}
    ELSE {"available", "available_ip_addresses"}

\* Whether the schema object `ref` holds every declared field (and, for the
\* response schema, the list's Element).
Complete(fn, ref, h) ==
    /\ ref # NoRef
    /\ DeclaredAttrs(fn) \subseteq DOMAIN h[ref].attrs
    /\ fn = "_build_schema_on_200" =>
          "Element" \in DOMAIN h[h[ref].attrs["available_ip_addresses"].ref].attrs

SetAttr(h, ref, name, value) ==
    [h EXCEPT ![ref].attrs = (name :> value) @@ @]

At(t, fn, stmt) == tpc[t] = stmt /\ tfn[t] = fn

Goto(t, stmt) == tpc' = [tpc EXCEPT ![t] = stmt]

\* The call returns the class attribute as it is now.
Return(t, fn) ==
    /\ tret' = [tret EXCEPT ![t] =
                  Append(@, [fn |-> fn, ref |-> Cache(fn), raised |-> FALSE,
                             complete |-> Complete(fn, Cache(fn), heap)])]
    /\ Goto(t, "idle")

ThreadCall(t) ==
    /\ tpc[t] = "idle"
    /\ tcalls[t] < MaxThreadCalls
    /\ \E fn \in Builders : tfn' = [tfn EXCEPT ![t] = fn]
    /\ tcalls' = [tcalls EXCEPT ![t] = @ + 1]
    /\ tlocal' = [tlocal EXCEPT ![t] = [s |-> NoRef, l |-> NoRef]]
    /\ Goto(t, "check")
    /\ UNCHANGED <<classVars, histVars, cmdVars, tret, profVars>>

\* lines 40 and 157: `if cls._... is not None:`
ThreadCheck(t) ==
    /\ tpc[t] = "check"
    /\ Goto(t, IF Cache(tfn[t]) # NoRef THEN "return_cached" ELSE "construct")
    /\ UNCHANGED <<classVars, histVars, cmdVars, tfn, tlocal, tret, tcalls, profVars>>

\* lines 41 and 158: `return cls._...`
ThreadReturnCached(t) ==
    /\ tpc[t] = "return_cached"
    /\ Return(t, tfn[t])
    /\ UNCHANGED <<classVars, histVars, cmdVars, tfn, tlocal, tcalls, profVars>>

\* line 42: cls._args_schema = super()._build_arguments_schema(...)
ArgsConstruct(t) ==
    /\ At(t, "_build_arguments_schema", "construct")
    /\ heap' = heap @@ (nextObj :> Obj("AAZArgumentsSchema", EmptyDict))
    /\ args_schema' = nextObj
    /\ nextObj' = nextObj + 1
    /\ Goto(t, "bind")
    /\ UNCHANGED <<schema_on_200, histVars, cmdVars, tfn, tlocal, tret, tcalls, profVars>>

\* line 160: cls._schema_on_200 = AAZObjectType()
On200Construct(t) ==
    /\ At(t, "_build_schema_on_200", "construct")
    /\ heap' = heap @@ (nextObj :> Obj("AAZObjectType", EmptyDict))
    /\ schema_on_200' = nextObj
    /\ nextObj' = nextObj + 1
    /\ Goto(t, "bind")
    /\ UNCHANGED <<args_schema, histVars, cmdVars, tfn, tlocal, tret, tcalls, profVars>>

\* lines 46 and 162: the local name is bound to the class attribute as it is now.
ThreadBind(t) ==
    /\ tpc[t] = "bind"
    /\ tlocal' = [tlocal EXCEPT ![t].s = Cache(tfn[t])]
    /\ Goto(t, "field1")
    /\ UNCHANGED <<classVars, histVars, cmdVars, tfn, tret, tcalls, profVars>>

\* line 47: _args_schema.resource_group = AAZResourceGroupNameArg(...)
ArgsSetResourceGroup(t) ==
    /\ At(t, "_build_arguments_schema", "field1")
    /\ heap' = SetAttr(heap, tlocal[t].s, "resource_group", ArgResourceGroup)
    /\ Goto(t, "field2")
    /\ UNCHANGED <<args_schema, schema_on_200, nextObj, histVars, cmdVars, tfn,
                   tlocal, tret, tcalls, profVars>>

\* line 50: _args_schema.name = AAZStrArg(...)
ArgsSetName(t) ==
    /\ At(t, "_build_arguments_schema", "field2")
    /\ heap' = SetAttr(heap, tlocal[t].s, "name", ArgName)
    /\ Goto(t, "field3")
    /\ UNCHANGED <<args_schema, schema_on_200, nextObj, histVars, cmdVars, tfn,
                   tlocal, tret, tcalls, profVars>>

\* line 56: _args_schema.ip_address = AAZStrArg(...)
ArgsSetIpAddress(t) ==
    /\ At(t, "_build_arguments_schema", "field3")
    /\ heap' = SetAttr(heap, tlocal[t].s, "ip_address", ArgIpAddress)
    /\ Goto(t, "return")
    /\ UNCHANGED <<args_schema, schema_on_200, nextObj, histVars, cmdVars, tfn,
                   tlocal, tret, tcalls, profVars>>

\* line 163: _schema_on_200.available = AAZBoolType()
On200SetAvailable(t) ==
    /\ At(t, "_build_schema_on_200", "field1")
    /\ heap' = SetAttr(heap, tlocal[t].s, "available",
                       Field("AAZBoolType", FALSE, {}, None, None, NoRef))
    /\ Goto(t, "field2")
    /\ UNCHANGED <<args_schema, schema_on_200, nextObj, histVars, cmdVars, tfn,
                   tlocal, tret, tcalls, profVars>>

\* line 164: _schema_on_200.available_ip_addresses = AAZListType(...)
On200SetList(t) ==
    /\ At(t, "_build_schema_on_200", "field2")
    /\ heap' = SetAttr(heap @@ (nextObj :> Obj("AAZListType", EmptyDict)),
                       tlocal[t].s, "available_ip_addresses",
                       Field("AAZListType", FALSE, {}, None, "availableIPAddresses", nextObj))
    /\ nextObj' = nextObj + 1
    /\ Goto(t, "field3")
    /\ UNCHANGED <<args_schema, schema_on_200, histVars, cmdVars, tfn, tlocal, tret,
                   tcalls, profVars>>

\* line 168: available_ip_addresses = cls._schema_on_200.available_ip_addresses
\* reads the class attribute again; a schema object without that field raises.
On200ReadList(t) ==
    /\ At(t, "_build_schema_on_200", "field3")
    /\ IF "available_ip_addresses" \in DOMAIN heap[schema_on_200].attrs
       THEN /\ tlocal' = [tlocal EXCEPT ![t].l =
                            heap[schema_on_200].attrs["available_ip_addresses"].ref]
            /\ Goto(t, "element")
            /\ UNCHANGED tret
       ELSE /\ tret' = [tret EXCEPT ![t] =
                          Append(@, [fn |-> tfn[t], ref |-> NoRef, raised |-> TRUE,
                                     complete |-> FALSE])]
            /\ Goto(t, "idle")
            /\ UNCHANGED tlocal
    /\ UNCHANGED <<classVars, histVars, cmdVars, tfn, tcalls, profVars>>

\* line 169: available_ip_addresses.Element = AAZStrType()
On200SetElement(t) ==
    /\ At(t, "_build_schema_on_200", "element")
    /\ heap' = SetAttr(heap, tlocal[t].l, "Element",
                       Field("AAZStrType", FALSE, {}, None, None, NoRef))
    /\ Goto(t, "return")
    /\ UNCHANGED <<args_schema, schema_on_200, nextObj, histVars, cmdVars, tfn,
                   tlocal, tret, tcalls, profVars>>

\* lines 60 and 171: `return cls._...`
ThreadReturn(t) ==
    /\ tpc[t] = "return"
    /\ Return(t, tfn[t])
    /\ UNCHANGED <<classVars, histVars, cmdVars, tfn, tlocal, tcalls, profVars>>

NextConcurrent ==
    \E t \in Threads :
        \/ ThreadCall(t)
        \/ ThreadCheck(t)
        \/ ThreadReturnCached(t)
        \/ ArgsConstruct(t)
        \/ On200Construct(t)
        \/ ThreadBind(t)
        \/ ArgsSetResourceGroup(t)
        \/ ArgsSetName(t)
        \/ ArgsSetIpAddress(t)
        \/ On200SetAvailable(t)
        \/ On200SetList(t)
        \/ On200ReadList(t)
        \/ On200SetElement(t)
        \/ ThreadReturn(t)

SpecConcurrent == Init /\ [][NextConcurrent]_vars

Constructed(type) == {r \in DOMAIN heap : heap[r].type = type}

\* C6: the schema build is guarded against concurrent first use - when two
\* invocations make the first call of a builder at the same time, exactly one
\* schema object is constructed, both callers get that object, and no caller
\* gets a cached schema that lacks a declared field.
C6_GuardedBuild ==
    /\ Cardinality(Constructed("AAZArgumentsSchema")) <= 1
    /\ Cardinality(Constructed("AAZObjectType")) <= 1
    /\ \A t \in Threads : \A i \in 1..Len(tret[t]) :
          /\ ~tret[t][i].raised
          /\ tret[t][i].complete
          /\ \A u \in Threads : \A j \in 1..Len(tret[u]) :
                tret[u][j].fn = tret[t][i].fn => tret[u][j].ref = tret[t][i].ref

\* ==================================================== the profile commands
\* Python truthiness of an optional string argument.
Truthy(v) == v \notin {None, ""}

Usernames == {None, "", "user"}
Passwords == {None, "pw"}
Tenants == {None, "t1"}
Assertions == {None, "jwt"}
SubscriptionArgs == {None, "", "s1", "s2", "nope"}

\* The subscriptions the account store knows.
KnownSubscriptions == {"s1", "s2", "s3"}

Sub(id, env) == ("id" :> id) @@ ("name" :> id) @@ ("environmentName" :> env)

\* What profile.login (or a managed-identity login) may return; the last
\* entry has no environmentName key.
SubscriptionLists ==
    { <<Sub("s1", "AzureCloud")>>,
      <<Sub("s1", "AzureCloud"), Sub("s2", "AzureChinaCloud")>>,
      <<("id" :> "s3") @@ ("name" :> "s3")>> }

UsageIdentity == "usage error: '--identity' is not applicable with other arguments"
UsageDeviceCode == "usage error: '--use-device-code' is not applicable with other arguments"
UsageSnIssuer == "usage error: '--use-sn-issuer' is only applicable with a service principal"
UsageServicePrincipal ==
    "usage error: --service-principal --username NAME --password SECRET --tenant TENANT"
UsageErrors == {UsageIdentity, UsageDeviceCode, UsageSnIssuer, UsageServicePrincipal}

\* The usage check without its last test.
UsageError_NoPrincipalTest(a) ==
    IF (Truthy(a.password) \/ a.service_principal \/ Truthy(a.tenant)) /\ a.identity
    THEN UsageIdentity
    ELSE IF (Truthy(a.password) \/ a.service_principal \/ Truthy(a.username) \/ a.identity)
              /\ a.use_device_code
    THEN UsageDeviceCode
    ELSE IF a.use_cert_sn_issuer /\ ~a.service_principal
    THEN UsageSnIssuer
    ELSE None

\* login, lines 121-128: the first test that fires decides the error.
UsageError(a) ==
    IF (Truthy(a.password) \/ a.service_principal \/ Truthy(a.tenant)) /\ a.identity
    THEN UsageIdentity
    ELSE IF (Truthy(a.password) \/ a.service_principal \/ Truthy(a.username) \/ a.identity)
              /\ a.use_device_code
    THEN UsageDeviceCode
    ELSE IF a.use_cert_sn_issuer /\ ~a.service_principal
    THEN UsageSnIssuer
    ELSE IF a.service_principal /\ ~Truthy(a.username)
    THEN UsageServicePrincipal
    ELSE None

\* The selection condition without the test of stdout.
SelectSubscription_NoStdout(interactive, env) ==
    interactive /\ env.stdin_tty /\ env.login_experience_v2

\* login, lines 154-155.
SelectSubscription(interactive, env) ==
    interactive /\ env.stdin_tty /\ env.stdout_tty /\ env.login_experience_v2

\* login, line 183: sub['cloudName'] = sub.pop('environmentName', None)
RenameEnvironment(sub) ==
    [k \in (DOMAIN sub \ {"environmentName"}) \cup {"cloudName"} |->
        IF k = "cloudName"
        THEN IF "environmentName" \in DOMAIN sub THEN sub["environmentName"] ELSE None
        ELSE sub[k]]

\* login, lines 181-184.
AllSubscriptions(subs) == [i \in DOMAIN subs |-> RenameEnvironment(subs[i])]

\* set_active_subscription, line 100: `if not id:` tests the builtin function
\* id, which is always true; the argument is never looked at.
NotId(subscription) == FALSE

\* Profile.set_active_subscription: a known subscription becomes the active
\* one; any other is refused by the store.
ProfileSetActive(subscription, current) ==
    IF subscription \in KnownSubscriptions
    THEN [active |-> subscription, err |-> None]
    ELSE [active |-> current, err |-> "subscription not found"]

LRaise(msg) ==
    /\ lpc' = "raised"
    /\ lerr' = msg

NoReturn == [kind |-> "none", value |-> <<>>]

\* A call of `az login`.  allow_no_subscriptions and scopes are handed to the
\* Profile untouched and are left out.
CallLogin ==
    /\ lpc = "idle"
    /\ lcount < MaxProfileCalls
    /\ lcount' = lcount + 1
    /\ \E u \in Usernames, p \in Passwords, tn \in Tenants, ca \in Assertions,
          sp \in BOOLEAN, idn \in BOOLEAN, dc \in BOOLEAN, sn \in BOOLEAN :
          largs' = [fn |-> "login", username |-> u, password |-> p,
                    service_principal |-> sp, tenant |-> tn, identity |-> idn,
                    use_device_code |-> dc, use_cert_sn_issuer |-> sn,
                    client_assertion |-> ca, subscription |-> None]
    /\ \E i \in BOOLEAN, o \in BOOLEAN, v2 \in BOOLEAN, cc \in BOOLEAN :
          lenv' = [stdin_tty |-> i, stdout_tty |-> o, login_experience_v2 |-> v2,
                   cloud_console |-> cc]
    /\ lpc' = "login_check"
    /\ lpassword' = largs'.password
    /\ linteractive' = FALSE
    /\ lsubs' = <<>>
    /\ lret' = NoReturn
    /\ lerr' = None
    /\ lcalls' = <<>>
    /\ activeAtCall' = active
    /\ UNCHANGED <<classVars, histVars, cmdVars, thrVars, active>>

\* lines 121-128: the quick argument usage check.
LoginUsageCheck ==
    /\ lpc = "login_check"
    /\ IF UsageError(largs) # None
       THEN LRaise(UsageError(largs))
       ELSE lpc' = "login_profile" /\ UNCHANGED lerr
    /\ UNCHANGED <<classVars, histVars, cmdVars, thrVars, largs, lenv, lpassword,
                   linteractive, lsubs, lret, lcalls, active, activeAtCall, lcount>>

\* lines 130-139: the Profile is created; with --identity the call ends in the
\* managed-identity (or Cloud Shell) login, whose result is returned as it is.
LoginProfile ==
    /\ lpc = "login_profile"
    /\ IF largs.identity
       THEN \E subs \in SubscriptionLists :
               /\ lcalls' = lcalls \o
                     <<"Profile", IF lenv.cloud_console
                                  THEN "profile.login_in_cloud_shell"
                                  ELSE "profile.login_with_managed_identity">>
               /\ lret' = [kind |-> "raw", value |-> subs]
               /\ lpc' = "done"
       ELSE /\ lcalls' = Append(lcalls, "Profile")
            /\ lpc' = "login_prompt"
            /\ UNCHANGED lret
    /\ UNCHANGED <<classVars, histVars, cmdVars, thrVars, largs, lenv, lpassword,
                   linteractive, lsubs, lerr, active, activeAtCall, lcount>>

\* lines 141-148: with a username and neither password nor client assertion
\* the password is prompted for, which fails without a tty; without a
\* username the login is interactive.
LoginPrompt ==
    /\ lpc = "login_prompt"
    /\ IF Truthy(largs.username)
       THEN IF ~(Truthy(lpassword) \/ Truthy(largs.client_assertion))
            THEN /\ lcalls' = Append(lcalls, "prompt_pass")
                 /\ \/ /\ lpassword' = "typed"
                       /\ lpc' = "login_credential"
                       /\ UNCHANGED lerr
                    \/ /\ LRaise("Please specify both username and password in non-interactive mode.")
                       /\ UNCHANGED lpassword
                 /\ UNCHANGED linteractive
            ELSE /\ lpc' = "login_credential"
                 /\ UNCHANGED <<lcalls, lpassword, lerr, linteractive>>
       ELSE /\ linteractive' = TRUE
            /\ lpc' = "login_credential"
            /\ UNCHANGED <<lcalls, lpassword, lerr>>
    /\ UNCHANGED <<classVars, histVars, cmdVars, thrVars, largs, lenv, lsubs, lret,
                   active, activeAtCall, lcount>>

\* lines 150-167: a service principal's credential is built, the selection
\* condition is evaluated and profile.login is called; it returns the
\* subscriptions or raises.
LoginProfileLogin ==
    /\ lpc = "login_credential"
    /\ lpassword' = IF largs.service_principal THEN "credential" ELSE lpassword
    /\ lcalls' = lcalls \o (IF largs.service_principal
                            THEN <<"ServicePrincipalAuth.build_credential">>
                            ELSE <<>>) \o <<"profile.login">>
    /\ \/ /\ \E subs \in SubscriptionLists : lsubs' = subs
          /\ lpc' = IF SelectSubscription(linteractive, lenv)
                    THEN "login_select" ELSE "login_return"
          /\ UNCHANGED lerr
       \/ /\ LRaise("authentication failed")
          /\ UNCHANGED lsubs
    /\ UNCHANGED <<classVars, histVars, cmdVars, thrVars, largs, lenv, linteractive,
                   lret, active, activeAtCall, lcount>>

\* lines 170-179: the user picks a subscription, it becomes the active one,
\* and login returns nothing.
LoginSelect ==
    /\ lpc = "login_select"
    /\ \E i \in DOMAIN lsubs :
          LET r == ProfileSetActive(lsubs[i]["id"], active)
          IN  /\ active' = r.active
              /\ IF r.err = None
                 THEN lpc' = "done" /\ UNCHANGED lerr
                 ELSE LRaise(r.err)
    /\ lcalls' = lcalls \o <<"SubscriptionSelector", "profile.set_active_subscription">>
    /\ lret' = NoReturn
    /\ UNCHANGED <<classVars, histVars, cmdVars, thrVars, largs, lenv, lpassword,
                   linteractive, lsubs, activeAtCall, lcount>>

\* lines 181-184: every subscription is returned, environmentName renamed.
LoginReturnAll ==
    /\ lpc = "login_return"
    /\ lret' = [kind |-> "list", value |-> AllSubscriptions(lsubs)]
    /\ lpc' = "done"
    /\ UNCHANGED <<classVars, histVars, cmdVars, thrVars, largs, lenv, lpassword,
                   linteractive, lsubs, lerr, lcalls, active, activeAtCall, lcount>>

\* A call of `az account set`: set_active_subscription(cmd, subscription).
CallSetActiveSubscription ==
    /\ lpc = "idle"
    /\ lcount < MaxProfileCalls
    /\ lcount' = lcount + 1
    /\ \E sub \in SubscriptionArgs :
          largs' = [NoLoginArgs EXCEPT !.fn = "set_active_subscription",
                                       !.subscription = sub]
    /\ lenv' = NoEnv
    /\ lpc' = "set_active"
    /\ lpassword' = None
    /\ linteractive' = FALSE
    /\ lsubs' = <<>>
    /\ lret' = NoReturn
    /\ lerr' = None
    /\ lcalls' = <<>>
    /\ activeAtCall' = active
    /\ UNCHANGED <<classVars, histVars, cmdVars, thrVars, active>>

\* set_active_subscription, lines 99-102.
SetActiveSubscription ==
    /\ lpc = "set_active"
    /\ IF NotId(largs.subscription)
       THEN /\ lcalls' = Append(lcalls, "Profile")
            /\ LRaise("Please provide subscription id or unique name.")
            /\ UNCHANGED active
       ELSE LET r == ProfileSetActive(largs.subscription, active)
            IN  /\ lcalls' = lcalls \o <<"Profile", "profile.set_active_subscription">>
                /\ active' = r.active
                /\ IF r.err = None
                   THEN lpc' = "done" /\ UNCHANGED lerr
                   ELSE LRaise(r.err)
    /\ UNCHANGED <<classVars, histVars, cmdVars, thrVars, largs, lenv, lpassword,
                   linteractive, lsubs, lret, activeAtCall, lcount>>

\* The call is over: its frame is gone, the account store stays.
ProfileCallEnds ==
    /\ lpc \in {"done", "raised"}
    /\ lpc' = "idle"
    /\ largs' = NoLoginArgs
    /\ lenv' = NoEnv
    /\ lpassword' = None
    /\ linteractive' = FALSE
    /\ lsubs' = <<>>
    /\ lret' = NoReturn
    /\ lerr' = None
    /\ lcalls' = <<>>
    /\ activeAtCall' = active
    /\ UNCHANGED <<classVars, histVars, cmdVars, thrVars, active, lcount>>

NextProfile ==
    \/ CallLogin
    \/ LoginUsageCheck
    \/ LoginProfile
    \/ LoginPrompt
    \/ LoginProfileLogin
    \/ LoginSelect
    \/ LoginReturnAll
    \/ CallSetActiveSubscription
    \/ SetActiveSubscription
    \/ ProfileCallEnds

SpecProfile == Init /\ [][NextProfile]_vars

\* ============================================ claims under SpecProfile
Called(name) == \E i \in 1..Len(lcalls) : lcalls[i] = name

Finished == lpc \in {"done", "raised"}

\* C8: set_active_subscription called with an empty or None subscription
\* raises CLIError('Please provide subscription id or unique name.') without
\* calling profile.set_active_subscription, and the active subscription stays.
C8_RejectsMissingSubscription ==
    (/\ largs.fn = "set_active_subscription"
     /\ ~Truthy(largs.subscription)
     /\ Finished) =>
        /\ lpc = "raised"
        /\ lerr = "Please provide subscription id or unique name."
        /\ ~Called("profile.set_active_subscription")
        /\ active = activeAtCall

\* The argument combinations the usage check is said to refuse.
Misused(a) ==
    \/ a.identity /\ (Truthy(a.password) \/ a.service_principal \/ Truthy(a.tenant))
    \/ a.use_device_code /\ (\/ Truthy(a.password) \/ a.service_principal
                             \/ Truthy(a.username) \/ a.identity)
    \/ a.use_cert_sn_issuer /\ ~a.service_principal
    \/ a.service_principal /\ ~Truthy(a.username)

\* C9: login's usage check comes before every side effect - for each misused
\* combination of arguments login raises a usage error with no Profile
\* created, no password prompt and no login method called.
C9_UsageCheckFirst ==
    (largs.fn = "login" /\ lpc # "login_check") =>
        /\ Misused(largs) =>
              /\ lpc = "raised"
              /\ lerr \in UsageErrors
              /\ lcalls = <<>>
              /\ active = activeAtCall
        /\ lerr \in UsageErrors => lcalls = <<>>

C9_Witness ==
    /\ largs.fn = "login" /\ lpc = "raised"
    /\ lerr = UsageServicePrincipal
    /\ largs.service_principal /\ largs.username = "" /\ largs.password = "pw"
    /\ lcalls = <<>>

Before(a, b) ==
    \E i, j \in 1..Len(lcalls) : i < j /\ lcalls[i] = a /\ lcalls[j] = b

\* The selector runs only under the selection condition and after
\* profile.login; once it has run the picked subscription is the active one
\* and login returns nothing.
SelectorPart ==
    (largs.fn = "login" /\ Called("SubscriptionSelector")) =>
        /\ ~Truthy(largs.username)
        /\ ~largs.identity
        /\ lenv.stdin_tty /\ lenv.stdout_tty /\ lenv.login_experience_v2
        /\ Before("profile.login", "SubscriptionSelector")
        /\ lpc = "done"
        /\ lret = NoReturn
        /\ \E i \in DOMAIN lsubs : active = lsubs[i]["id"]

\* The list login returns: every subscription profile.login gave, in order,
\* environmentName gone and its value under cloudName.
ReturnsRenamedList ==
    /\ lret.kind = "list"
    /\ Len(lret.value) = Len(lsubs)
    /\ Len(lsubs) > 0
    /\ \A i \in DOMAIN lsubs :
          /\ "environmentName" \notin DOMAIN lret.value[i]
          /\ "cloudName" \in DOMAIN lret.value[i]
          /\ "environmentName" \in DOMAIN lsubs[i] =>
                lret.value[i]["cloudName"] = lsubs[i]["environmentName"]
          /\ \A k \in DOMAIN lsubs[i] \ {"environmentName"} :
                k \in DOMAIN lret.value[i] /\ lret.value[i][k] = lsubs[i][k]
    /\ ~Called("profile.set_active_subscription")
    /\ active = activeAtCall

====
